---- MODULE Spec2Model ----
(***************************************************************************)
(* A model of data_loader.py: the DataLoader class that downloads a        *)
(* parallel corpus, normalises it, trains or reuses a subword model per    *)
(* language side, loads the two vocabularies and encodes the corpora as    *)
(* integer id sequences.                                                   *)
(*                                                                         *)
(* Text is modelled character by character: a string is a sequence of      *)
(* one-character strings.  The four reserved pieces "<pad>", "<unk>",      *)
(* "<s>" and "</s>" are each treated as one indivisible symbol.  A token   *)
(* (piece) is a non-empty string without whitespace.                       *)
(***************************************************************************)
EXTENDS Integers, Sequences, FiniteSets, TLC

VARIABLES
    fs,          \* the filesystem: path -> file content, for the files that exist
    PATHS,       \* DataLoader.PATHS, the class-level dict shared by all instances
    dictionary,  \* DataLoader.dictionary, the class-level vocabulary tables
    inst,        \* per instance: the attributes __init__ sets
    pc,          \* position of the running load() call ("idle" when none runs)
    self,        \* the instance whose load() is running
    locals,      \* the local variables of the running load() call
    last,        \* the last finished public call: what was called and how it ended
    remote,      \* what the server holds: file name -> content
    nFetch,      \* urlretrieve calls made by the current / last load() call
    nTrain,      \* SentencePieceTrainer.Train calls made by the current / last load()
    rets,        \* the values returned by the load() calls that completed, in order
    runs,        \* number of load() calls started
    clean        \* TRUE while no load() call has ended in an exception

vars == <<fs, PATHS, dictionary, inst, pc, self, locals, last, remote,
          nFetch, nTrain, rets, runs, clean>>

----------------------------------------------------------------------------
(* Bounds of the model. *)

MaxCorpusLen == 4   \* characters of a downloaded training corpus
MaxRuns == 2        \* load() calls started in one behaviour
MaxTail == 2        \* vocabulary lines after the chosen header
MaxTextLen == 3     \* characters of a piece-line handed to texts_to_sequences
MaxSeqLen == 2      \* ids of a sequence handed to sequences_to_texts
MaxFileLen == 4     \* characters of a data file handed to parse_data_and_save
MaxCalls == 2       \* calls made in one behaviour of the file-method specification

----------------------------------------------------------------------------
(* Python string operations used by the code. *)

PAD == "<pad>"
UNK == "<unk>"
BOS == "<s>"
EOS == "</s>"

Whitespace == {" ", "\t", "\n"}

RECURSIVE LStrip(_)
LStrip(s) ==
    IF s # <<>> /\ Head(s) \in Whitespace THEN LStrip(Tail(s)) ELSE s

RECURSIVE RStrip(_)
RStrip(s) ==
    IF s # <<>> /\ s[Len(s)] \in Whitespace
    THEN RStrip(SubSeq(s, 1, Len(s) - 1)) ELSE s

\* str.strip(): leading and trailing whitespace removed.
Strip(s) == LStrip(RStrip(s))

\* str.split(sep) for a one-character separator: never empty, keeps empty fields.
RECURSIVE SplitOn(_, _)
SplitOn(s, sep) ==
    IF \A i \in 1..Len(s) : s[i] # sep
    THEN <<s>>
    ELSE LET i == CHOOSE j \in 1..Len(s) :
                      s[j] = sep /\ \A k \in 1..(j - 1) : s[k] # sep
         IN  <<SubSeq(s, 1, i - 1)>> \o SplitOn(SubSeq(s, i + 1, Len(s)), sep)

\* str.split(): the maximal runs of non-whitespace characters.
RECURSIVE SplitWs(_)
SplitWs(s) ==
    LET t == LStrip(s) IN
    IF t = <<>> THEN <<>>
    ELSE LET n == IF \A i \in 1..Len(t) : t[i] \notin Whitespace
                  THEN Len(t)
                  ELSE (CHOOSE j \in 1..Len(t) :
                            t[j] \in Whitespace
                            /\ \A k \in 1..(j - 1) : t[k] \notin Whitespace) - 1
         IN  <<SubSeq(t, 1, n)>> \o SplitWs(SubSeq(t, n + 1, Len(t)))

\* str.splitlines(): like split('\n') without the empty field after a final newline.
SplitLines(s) ==
    LET p == SplitOn(s, "\n") IN
    IF p[Len(p)] = <<>> THEN SubSeq(p, 1, Len(p) - 1) ELSE p

\* sep.join(items)
RECURSIVE Join(_, _)
Join(items, sep) ==
    IF items = <<>> THEN <<>>
    ELSE IF Len(items) = 1 THEN items[1]
    ELSE items[1] \o <<sep>> \o Join(Tail(items), sep)

\* The text written by "for x in items: f.write(x + '\n')".
RECURSIVE WriteLines(_)
WriteLines(items) ==
    IF items = <<>> THEN <<>>
    ELSE items[1] \o <<"\n">> \o WriteLines(Tail(items))

\* All sequences over S of length at most n.
RECURSIVE SeqsUpTo(_, _)
SeqsUpTo(S, n) ==
    IF n = 0 THEN {<<>>}
    ELSE LET shorter == SeqsUpTo(S, n - 1) IN
         shorter \cup {Append(s, c) : s \in {t \in shorter : Len(t) = n - 1}, c \in S}

Range(f) == {f[x] : x \in DOMAIN f}

----------------------------------------------------------------------------
(* Outcomes of a call: a returned value or a raised exception. *)

Returned(v) == [exc |-> "none", val |-> v]
Raised(e)   == [exc |-> e, val |-> <<>>]

----------------------------------------------------------------------------
(* Class-level constants of DataLoader. *)

DATASET_NAME == "wmt14/en-de"

CONFIG ==
    [n \in {DATASET_NAME} |->
        [ train_files      |-> <<"train.en", "train.de">>,
          vocab_files      |-> <<"vocab.50K.en", "vocab.50K.de">>,
          dictionary_files |-> <<"dict.en-de">>,
          test_files       |-> <<"newstest2012.en", "newstest2012.de",
                                 "newstest2013.en", "newstest2013.de",
                                 "newstest2014.en", "newstest2014.de",
                                 "newstest2015.en", "newstest2015.de">> ]]

BPE_MODEL_SUFFIX  == ".model"
BPE_VOCAB_SUFFIX  == ".vocab"
BPE_RESULT_SUFFIX == ".sequences"

Modes == {"source", "target"}

\* A path is the sequence of its components; path + suffix appends a component.
PathJoin(dir, name) == <<dir, name>>
PathAdd(path, suffix) == Append(path, suffix)

Exists(files, path) == path \in DOMAIN files

\* d[k] = v on a dict
Put(d, k, v) == [x \in DOMAIN d \cup {k} |-> IF x = k THEN v ELSE d[x]]

EmptyDict == [x \in {} |-> <<>>]

\* DataLoader.dictionary before any load(): both tables of both sides are None.
NoTables == [loaded |-> FALSE, token2idx |-> EmptyDict, idx2token |-> EmptyDict]
InitDictionary == [m \in Modes |-> NoTables]

----------------------------------------------------------------------------
(* load_bpe_vocab, texts_to_sequences, sequences_to_texts. *)

\* The vocabulary list of load_bpe_vocab: the first field of every line.
VocabOf(content) ==
    LET lines == SplitLines(content) IN
    [i \in 1..Len(lines) |-> SplitWs(lines[i])[1]]

\* token2idx after the enumerate loop: a later line overwrites an earlier one.
Token2Idx(vocab) ==
    [t \in Range(vocab) |->
        (CHOOSE i \in 1..Len(vocab) :
            vocab[i] = t /\ \A j \in (i + 1)..Len(vocab) : vocab[j] # t) - 1]

\* An enumerate that counts from 1.
Idx2TokenFromOne(vocab) == [i \in 1..Len(vocab) |-> vocab[i]]

\* idx2token after the enumerate loop: ids are 0-based line positions.
Idx2Token(vocab) == [i \in 0..(Len(vocab) - 1) |-> vocab[i + 1]]

load_bpe_vocab(files, bpe_vocab_path) ==
    IF ~Exists(files, bpe_vocab_path) THEN Raised("FileNotFoundError")
    ELSE LET lines == SplitLines(files[bpe_vocab_path]) IN
         IF \E i \in 1..Len(lines) : SplitWs(lines[i]) = <<>>
         THEN Raised("IndexError")
         ELSE LET vocab == VocabOf(files[bpe_vocab_path]) IN
              Returned([token2idx |-> Token2Idx(vocab), idx2token |-> Idx2Token(vocab)])

\* The tables as stored in DataLoader.dictionary[mode] by load().
Tables(r) == [loaded |-> TRUE, token2idx |-> r.token2idx, idx2token |-> r.idx2token]

\* A lookup that falls back to id 0 instead of the id of "<unk>".
EncodeTokenFallbackZero(token2idx, token) ==
    IF token \in DOMAIN token2idx THEN token2idx[token] ELSE 0

\* token2idx.get(token, token2idx["<unk>"])
EncodeToken(token2idx, token) ==
    IF token \in DOMAIN token2idx THEN token2idx[token] ELSE token2idx[<<UNK>>]

\* An encoding that forgets the end marker.
EncodeTextNoEnd(token2idx, text) ==
    LET text_list == <<(<<BOS>>)>> \o SplitWs(text) IN
    [k \in 1..Len(text_list) |-> EncodeToken(token2idx, text_list[k])]

EncodeText(token2idx, text) ==
    LET text_list == <<(<<BOS>>)>> \o SplitWs(text) \o <<(<<EOS>>)>> IN
    [k \in 1..Len(text_list) |-> EncodeToken(token2idx, text_list[k])]

\* The mode test of both codec methods builds a ValueError and drops it: no raise.
texts_to_sequences(dict, texts, mode) ==
    IF texts = <<>> THEN Returned(<<>>)
    ELSE IF mode \notin DOMAIN dict THEN Raised("KeyError")
    ELSE IF ~dict[mode].loaded THEN Raised("AttributeError")
    ELSE IF <<UNK>> \notin DOMAIN dict[mode].token2idx THEN Raised("KeyError")
    ELSE Returned([n \in 1..Len(texts) |-> EncodeText(dict[mode].token2idx, texts[n])])

\* A lookup that always answers with the fallback.
DecodeIdxFallbackOnly(idx2token, idx) == idx2token[1]

\* idx2token.get(idx, idx2token[1])
DecodeIdx(idx2token, idx) ==
    IF idx \in DOMAIN idx2token THEN idx2token[idx] ELSE idx2token[1]

\* A decoding that leaves out the ids it does not find.
SequencesToTextsSkipping(dict, sequences, mode) ==
    IF \A n \in 1..Len(sequences) : sequences[n] = <<>>
    THEN Returned([n \in 1..Len(sequences) |-> <<>>])
    ELSE IF mode \notin DOMAIN dict THEN Raised("KeyError")
    ELSE IF ~dict[mode].loaded THEN Raised("AttributeError")
    ELSE IF 1 \notin DOMAIN dict[mode].idx2token THEN Raised("KeyError")
    ELSE LET known(idx) == idx \in DOMAIN dict[mode].idx2token IN
         Returned([n \in 1..Len(sequences) |->
                     LET kept == SelectSeq(sequences[n], known) IN
                     [k \in 1..Len(kept) |-> dict[mode].idx2token[kept[k]]]])

sequences_to_texts(dict, sequences, mode) ==
    IF \A n \in 1..Len(sequences) : sequences[n] = <<>>
    THEN Returned([n \in 1..Len(sequences) |-> <<>>])
    ELSE IF mode \notin DOMAIN dict THEN Raised("KeyError")
    ELSE IF ~dict[mode].loaded THEN Raised("AttributeError")
    ELSE IF 1 \notin DOMAIN dict[mode].idx2token THEN Raised("KeyError")
    ELSE Returned([n \in 1..Len(sequences) |->
                     [k \in 1..Len(sequences[n]) |->
                         DecodeIdx(dict[mode].idx2token, sequences[n][k])]])

----------------------------------------------------------------------------
(* __init__ *)

Instances == {1, 2}

NoInstance == [made |-> FALSE, DIR |-> "", DATASET |-> "", BPE_VOCAB_SIZE |-> 0]

\* PATHS after the four assignments of __init__.
InitPaths(paths, dataset_name, data_dir) ==
    LET source_data == PathJoin(data_dir, CONFIG[dataset_name].train_files[1])
        target_data == PathJoin(data_dir, CONFIG[dataset_name].train_files[2])
        p1 == Put(paths, "source_data", source_data)
        p2 == Put(p1, "source_bpe_prefix", PathAdd(p1["source_data"], ".segmented"))
        p3 == Put(p2, "target_data", target_data)
    IN  Put(p3, "target_bpe_prefix", PathAdd(p3["target_data"], ".segmented"))

\* A constructor that stores its first path before it looks the dataset up.
ConstructStoringFirst(paths, dataset_name, data_dir) ==
    IF dataset_name = "None" \/ data_dir = "None"
    THEN [exc |-> "ValueError", paths |-> paths]
    ELSE IF dataset_name \notin DOMAIN CONFIG
    THEN [exc |-> "KeyError", paths |-> Put(paths, "source_data", <<data_dir>>)]
    ELSE [exc |-> "none", paths |-> InitPaths(paths, dataset_name, data_dir)]

\* The outcome of DataLoader(dataset_name, data_dir, bpe_vocab_size): the exception
\* raised, if any, and the class-level PATHS afterwards.  The right-hand side of the
\* first PATHS assignment looks the dataset up in CONFIG before anything is stored.
Construct(paths, dataset_name, data_dir) ==
    IF dataset_name = "None" \/ data_dir = "None"
    THEN [exc |-> "ValueError", paths |-> paths]
    ELSE IF dataset_name \notin DOMAIN CONFIG
    THEN [exc |-> "KeyError", paths |-> paths]
    ELSE [exc |-> "none", paths |-> InitPaths(paths, dataset_name, data_dir)]

----------------------------------------------------------------------------
(* Stage #4 of load(): both vocabularies are loaded into the class-level   *)
(* dictionary, source first; an exception leaves the rest unassigned.      *)

\* The PATHS keys of a language side.
DataKey(mode)   == IF mode = "source" THEN "source_data" ELSE "target_data"
PrefixKey(mode) == IF mode = "source" THEN "source_bpe_prefix" ELSE "target_bpe_prefix"

\* The local variables of load() before its first assignment.
NoLocals == [source_data |-> <<>>, target_data |-> <<>>, pieces |-> <<>>,
             source_sequences |-> <<>>, target_sequences |-> <<>>]

VocabPath(paths, mode) == PathAdd(paths[PrefixKey(mode)], BPE_VOCAB_SUFFIX)

LoadVocabInto(dict, files, paths, mode) ==
    LET r == load_bpe_vocab(files, VocabPath(paths, mode)) IN
    IF r.exc = "none" THEN [dict EXCEPT ![mode] = Tables(r.val)] ELSE dict

----------------------------------------------------------------------------
(* The codec specification: the three vocabulary / codec methods applied   *)
(* to bounded inputs.  The source vocabulary file is any listing made of a *)
(* header and a tail; the dictionary is either untouched since class       *)
(* creation or as stage #4 of load() left it.                              *)

Dir1 == "d1"
Dir2 == "d2"

Line(token) == <<token, "\t", "0">>

ReservedHeader == <<Line(PAD), Line(UNK), Line(BOS), Line(EOS)>>

VocabHeaders ==
    { <<>>, ReservedHeader, <<Line(BOS), Line(EOS)>>, <<Line(UNK), Line(BOS), Line(EOS)>> }

TailLines == { Line("a"), <<"b">>, <<>> }

VocabFiles ==
    { WriteLines(h \o t) : h \in VocabHeaders, t \in SeqsUpTo(TailLines, MaxTail) }

TargetVocabFile == WriteLines(ReservedHeader \o <<Line("b"), Line("a")>>)

TextChars == {"a", "b", " "}

TextLines == SeqsUpTo(TextChars, MaxTextLen)

\* The lists handed to texts_to_sequences: none, one line, or a line and an empty line.
TextLists == {<<>>} \cup {<<t>> : t \in TextLines} \cup {<<t, <<>>>> : t \in TextLines}

AnyMode == Modes \cup {"other"}

\* The ids handed to sequences_to_texts: reserved ones, one that only the longer
\* vocabularies hold and one that no vocabulary holds.
Ids == {0, 1, 4, 9}

IdSeqs == SeqsUpTo(Ids, MaxSeqLen)

IdLists == {<<>>} \cup {<<q>> : q \in IdSeqs} \cup {<<q, <<>>>> : q \in IdSeqs}

NoCall == [op |-> "none", arg |-> <<>>, mode |-> "", out |-> Returned(<<>>), prev |-> <<>>]

CodecInit ==
    /\ PATHS = InitPaths(EmptyDict, DATASET_NAME, Dir1)
    /\ inst = [i \in Instances |->
                 IF i = 1
                 THEN [made |-> TRUE, DIR |-> Dir1, DATASET |-> DATASET_NAME,
                       BPE_VOCAB_SIZE |-> 6]
                 ELSE NoInstance]
    /\ \E v \in VocabFiles :
          fs = [p \in {VocabPath(PATHS, "source"), VocabPath(PATHS, "target")} |->
                  IF p = VocabPath(PATHS, "source") THEN v ELSE TargetVocabFile]
    /\ \E ld \in BOOLEAN :
          dictionary =
              IF ld /\ load_bpe_vocab(fs, VocabPath(PATHS, "source")).exc = "none"
              THEN LoadVocabInto(LoadVocabInto(InitDictionary, fs, PATHS, "source"),
                                 fs, PATHS, "target")
              ELSE InitDictionary
    /\ pc = "idle"
    /\ self = 1
    /\ locals = NoLocals
    /\ last = NoCall
    /\ remote = <<>>
    /\ nFetch = 0
    /\ nTrain = 0
    /\ rets = <<>>
    /\ runs = 0
    /\ clean = TRUE

\* Everything but the record of the last call.
world == <<fs, PATHS, dictionary, inst, pc, self, locals, remote,
           nFetch, nTrain, rets, runs, clean>>

\* The three methods do not change the world, so the outcome of a call does not
\* depend on the calls before it: each behaviour makes one call, or one
\* texts_to_sequences call followed by sequences_to_texts on its result.
CallLoadBpeVocab ==
    /\ pc = "idle"
    /\ last.op = "none"
    /\ \E mode \in Modes :
          last' = [op |-> "load_bpe_vocab", arg |-> VocabPath(PATHS, mode), mode |-> mode,
                   out |-> load_bpe_vocab(fs, VocabPath(PATHS, mode)), prev |-> <<>>]
    /\ UNCHANGED world

CallTextsToSequences ==
    /\ pc = "idle"
    /\ last.op = "none"
    /\ \E texts \in TextLists, mode \in AnyMode :
          last' = [op |-> "texts_to_sequences", arg |-> texts, mode |-> mode,
                   out |-> texts_to_sequences(dictionary, texts, mode), prev |-> <<>>]
    /\ UNCHANGED world

\* sequences_to_texts applied to what the last texts_to_sequences call returned.
CallSequencesToTexts ==
    /\ pc = "idle"
    /\ last.op = "texts_to_sequences"
    /\ last.out.exc = "none"
    /\ \E mode \in AnyMode :
          last' = [op |-> "sequences_to_texts", arg |-> last.out.val, mode |-> mode,
                   out |-> sequences_to_texts(dictionary, last.out.val, mode),
                   prev |-> [arg |-> last.arg, mode |-> last.mode]]
    /\ UNCHANGED world

\* sequences_to_texts applied to id sequences of the caller's own.
CallSequencesToTextsOn ==
    /\ pc = "idle"
    /\ last.op = "none"
    /\ \E sequences \in IdLists, mode \in AnyMode :
          last' = [op |-> "sequences_to_texts", arg |-> sequences, mode |-> mode,
                   out |-> sequences_to_texts(dictionary, sequences, mode),
                   prev |-> [arg |-> <<>>, mode |-> ""]]
    /\ UNCHANGED world

CodecNext ==
    \/ CallLoadBpeVocab
    \/ CallTextsToSequences
    \/ CallSequencesToTexts
    \/ CallSequencesToTextsOn

SpecCodec == CodecInit /\ [][CodecNext]_vars

----------------------------------------------------------------------------
(* The stages of load(). *)

\* The files download_dataset fetches, in order.
DatasetFiles(dataset_name) ==
    CONFIG[dataset_name].train_files \o CONFIG[dataset_name].vocab_files
        \o CONFIG[dataset_name].dictionary_files \o CONFIG[dataset_name].test_files

\* _download(url), url = base_url + file: the destination is <DIR>/<last component
\* of the url>, and a transfer is made only when the destination does not exist.
DownloadPath(data_dir, file) == PathJoin(data_dir, file)

\* A _download without the existence test.
NeedsFetchAlways(files, path) == TRUE

NeedsFetch(files, path) == ~Exists(files, path)

_download(files, data_dir, file, server) ==
    IF NeedsFetch(files, DownloadPath(data_dir, file))
    THEN Put(files, DownloadPath(data_dir, file), server[file])
    ELSE files

\* download_dataset: _download for each of the first n files of the dataset.
RECURSIVE download_dataset(_, _, _, _, _)
download_dataset(files, data_dir, names, n, server) ==
    IF n = 0 THEN files
    ELSE _download(download_dataset(files, data_dir, names, n - 1, server),
                   data_dir, names[n], server)

\* The transfers download_dataset starts for the first n files.
Fetched(files, data_dir, names, n) ==
    {k \in 1..n : NeedsFetch(files, DownloadPath(data_dir, names[k]))}

\* A parse_data_and_save that splits the raw buffer and writes every line with a
\* newline after it.
ParseAndSaveUnstripped(files, path) ==
    IF ~Exists(files, path)
    THEN [out |-> Raised("FileNotFoundError"), files |-> files]
    ELSE LET lines == SplitOn(files[path], "\n") IN
         [out |-> Returned(lines), files |-> Put(files, path, WriteLines(lines))]

\* parse_data_and_save(path): the lines returned and the filesystem afterwards.
parse_data_and_save(files, path) ==
    IF ~Exists(files, path)
    THEN [out |-> Raised("FileNotFoundError"), files |-> files]
    ELSE LET lines == SplitOn(Strip(files[path]), "\n") IN
         [out |-> Returned(lines), files |-> Put(files, path, Join(lines, "\n"))]

\* The distinct elements of a sequence, in order of first occurrence.
RECURSIVE Dedup(_)
Dedup(s) ==
    IF s = <<>> THEN <<>>
    ELSE LET front == Dedup(SubSeq(s, 1, Len(s) - 1)) IN
         IF s[Len(s)] \in Range(front) THEN front ELSE Append(front, s[Len(s)])

Min(a, b) == IF a < b THEN a ELSE b

\* SentencePieceTrainer.Train with --pad_id=0 --unk_id=1 --bos_id=2 --eos_id=3: a
\* deterministic function of the corpus and the vocabulary size.  The library is a
\* collaborator of the program; it is stood for by a trainer whose pieces are the
\* distinct words of the corpus in order of first occurrence, after the four
\* reserved pieces, cut to the vocabulary size.
TrainedVocab(corpus, vocab_size) ==
    LET words == Dedup(SplitWs(corpus))
        keep  == IF vocab_size > 4 THEN Min(Len(words), vocab_size - 4) ELSE 0
    IN  <<(<<PAD>>), (<<UNK>>), (<<BOS>>), (<<EOS>>)>> \o SubSeq(words, 1, keep)

VocabFileOf(vocab) == WriteLines([i \in 1..Len(vocab) |-> vocab[i] \o <<"\t", "0">>])

\* SentencePieceProcessor.EncodeAsPieces: stood for by an encoder whose pieces are
\* the words of the sentence (no piece for a blank sentence).
EncodeAsPieces(sentence) == SplitWs(sentence)

\* A train_bpe that takes either file for a trained model.
NeedsTrainUnlessEither(files, model_prefix) ==
    ~(Exists(files, PathAdd(model_prefix, BPE_MODEL_SUFFIX))
        \/ Exists(files, PathAdd(model_prefix, BPE_VOCAB_SUFFIX)))

\* train_bpe trains unless both the model file and the vocabulary file exist.
NeedsTrain(files, model_prefix) ==
    ~(Exists(files, PathAdd(model_prefix, BPE_MODEL_SUFFIX))
        /\ Exists(files, PathAdd(model_prefix, BPE_VOCAB_SUFFIX)))

\* The filesystem after train_bpe(data_path, model_prefix).
train_bpe(files, data_path, model_prefix, vocab_size) ==
    IF NeedsTrain(files, model_prefix)
    THEN LET text == VocabFileOf(TrainedVocab(files[data_path], vocab_size)) IN
         Put(Put(files, PathAdd(model_prefix, BPE_MODEL_SUFFIX), text),
             PathAdd(model_prefix, BPE_VOCAB_SUFFIX), text)
    ELSE files

\* A cache read that does not strip the buffer.
ReadCacheUnstripped(content) == SplitOn(content, "\n")

\* The lines sentence_piece reads back from an existing result file.
ReadCache(content) == SplitOn(Strip(content), "\n")

\* A sentence_piece that removes an empty result file and segments again.
SentencePieceDroppingEmptyCache(files, source_data, model_path, result_data_path) ==
    IF ~Exists(files, model_path)
    THEN [out |-> Raised("OSError"), files |-> files]
    ELSE IF Exists(files, result_data_path) /\ files[result_data_path] = <<>>
    THEN [out |-> Returned([n \in 1..Len(source_data) |->
                              Join(EncodeAsPieces(source_data[n]), " ")]),
          files |-> [p \in DOMAIN files \ {result_data_path} |-> files[p]]]
    ELSE IF Exists(files, result_data_path)
    THEN [out |-> Returned(ReadCache(files[result_data_path])), files |-> files]
    ELSE LET sequences == [n \in 1..Len(source_data) |->
                              Join(EncodeAsPieces(source_data[n]), " ")]
         IN  [out |-> Returned(sequences),
              files |-> Put(files, result_data_path, WriteLines(sequences))]

\* sentence_piece(source_data, model_path, result_data_path): the list returned and
\* the filesystem afterwards.
sentence_piece(files, source_data, model_path, result_data_path) ==
    IF ~Exists(files, model_path)
    THEN [out |-> Raised("OSError"), files |-> files]
    ELSE IF Exists(files, result_data_path)
    THEN [out |-> Returned(ReadCache(files[result_data_path])), files |-> files]
    ELSE LET sequences == [n \in 1..Len(source_data) |->
                              Join(EncodeAsPieces(source_data[n]), " ")]
         IN  [out |-> Returned(sequences),
              files |-> Put(files, result_data_path, WriteLines(sequences))]

----------------------------------------------------------------------------
(* The file-method specification: parse_data_and_save and sentence_piece   *)
(* called on the source side of a data directory that holds a data file of *)
(* any bounded content and, in half of the initial states, a trained       *)
(* model.                                                                  *)

FileChars == {"a", " ", "\n"}

FileContents == SeqsUpTo(FileChars, MaxFileLen)

\* The line lists handed to sentence_piece.
DataLists ==
    { <<>>,
      << <<"a">> >>,
      << <<"a", " ", "a">>, <<"a">> >>,
      << <<>>, <<"a">> >>,
      << <<"a">>, <<" ">> >> }

SourceData   == PATHS["source_data"]
SourceModel  == PathAdd(PATHS["source_bpe_prefix"], BPE_MODEL_SUFFIX)
SourceResult == PathAdd(PATHS["source_bpe_prefix"], BPE_RESULT_SUFFIX)

FilesInit ==
    /\ PATHS = InitPaths(EmptyDict, DATASET_NAME, Dir1)
    /\ inst = [i \in Instances |->
                 IF i = 1
                 THEN [made |-> TRUE, DIR |-> Dir1, DATASET |-> DATASET_NAME,
                       BPE_VOCAB_SIZE |-> 5]
                 ELSE NoInstance]
    /\ \E c \in FileContents, trained \in BOOLEAN :
          LET raw == [p \in {SourceData} |-> c] IN
          fs = IF trained
               THEN train_bpe(raw, SourceData, PATHS["source_bpe_prefix"], 5)
               ELSE raw
    /\ dictionary = InitDictionary
    /\ pc = "idle"
    /\ self = 1
    /\ locals = NoLocals
    /\ last = NoCall
    /\ remote = <<>>
    /\ nFetch = 0
    /\ nTrain = 0
    /\ rets = <<>>
    /\ runs = 0
    /\ clean = TRUE

\* The calls made so far in a behaviour of the file-method specification.
CallsOf(l) == IF l.op = "none" THEN 0 ELSE l.prev.calls

\* What a call record keeps of the state before the call.
Before == [fs |-> fs, op |-> last.op, out |-> last.out, calls |-> CallsOf(last) + 1]

CallParseDataAndSave ==
    /\ pc = "idle"
    /\ CallsOf(last) < MaxCalls
    /\ LET r == parse_data_and_save(fs, SourceData) IN
       /\ fs' = r.files
       /\ last' = [op |-> "parse_data_and_save", arg |-> SourceData, mode |-> "source",
                   out |-> r.out, prev |-> Before]
    /\ UNCHANGED <<PATHS, dictionary, inst, pc, self, locals, remote, nFetch, nTrain,
                   rets, runs, clean>>

CallSentencePiece ==
    /\ pc = "idle"
    /\ CallsOf(last) < MaxCalls
    /\ \E data \in DataLists :
          LET r == sentence_piece(fs, data, SourceModel, SourceResult) IN
          /\ fs' = r.files
          /\ last' = [op |-> "sentence_piece", arg |-> data, mode |-> "source",
                      out |-> r.out, prev |-> Before]
    /\ UNCHANGED <<PATHS, dictionary, inst, pc, self, locals, remote, nFetch, nTrain,
                   rets, runs, clean>>

FilesNext ==
    \/ CallParseDataAndSave
    \/ CallSentencePiece

SpecFiles == FilesInit /\ [][FilesNext]_vars

----------------------------------------------------------------------------
(* The pipeline specification: instances are constructed and load() runs,  *)
(* one stage at a time, on a data directory that starts empty.  A transfer,*)
(* a training or the writing of a result file can be cut short; it then    *)
(* leaves its partial output behind and load() ends in the exception.  A   *)
(* behaviour holds at most one such cut; exceptions the code raises itself *)
(* are not limited.                                                        *)

CorpusChars == {"a", " ", "\n"}

Corpora == SeqsUpTo(CorpusChars, MaxCorpusLen)

\* The target-side corpus of the server: the source-side one in another alphabet.
TargetOf(c) == [i \in 1..Len(c) |-> IF c[i] = "a" THEN "b" ELSE c[i]]

RemoteFor(c) ==
    [f \in Range(DatasetFiles(DATASET_NAME)) |->
        IF f = CONFIG[DATASET_NAME].train_files[1] THEN c
        ELSE IF f = CONFIG[DATASET_NAME].train_files[2] THEN TargetOf(c)
        ELSE <<"x">>]

BadNames == {"other", "None"}
VocabSizes == {5}

Pending == [exc |-> "pending", val |-> <<>>]

Init ==
    /\ fs = EmptyDict
    /\ PATHS = EmptyDict
    /\ dictionary = InitDictionary
    /\ inst = [i \in Instances |-> NoInstance]
    /\ pc = "idle"
    /\ self = 1
    /\ locals = NoLocals
    /\ last = NoCall
    /\ \E c \in Corpora : remote = RemoteFor(c)
    /\ nFetch = 0
    /\ nTrain = 0
    /\ rets = <<>>
    /\ runs = 0
    /\ clean = TRUE

\* DataLoader(dataset_name, data_dir, bpe_vocab_size), bound to slot i on success.
New(i, dataset_name, data_dir, bpe_vocab_size) ==
    /\ pc = "idle"
    /\ ~inst[i].made
    /\ LET r == Construct(PATHS, dataset_name, data_dir) IN
       /\ PATHS' = r.paths
       /\ inst' = IF r.exc = "none"
                  THEN [inst EXCEPT ![i] = [made |-> TRUE, DIR |-> data_dir,
                                            DATASET |-> dataset_name,
                                            BPE_VOCAB_SIZE |-> bpe_vocab_size]]
                  ELSE inst
       /\ last' = [op |-> "__init__", arg |-> <<dataset_name, data_dir>>, mode |-> "",
                   out |-> IF r.exc = "none" THEN Returned(i) ELSE Raised(r.exc),
                   prev |-> [PATHS |-> PATHS, dictionary |-> dictionary]]
    /\ UNCHANGED <<fs, dictionary, pc, self, locals, remote, nFetch, nTrain, rets,
                   runs, clean>>

\* load() is called on instance i; the call is pending until it returns or raises.
LoadStart(i) ==
    /\ pc = "idle"
    /\ inst[i].made
    /\ runs < MaxRuns
    /\ pc' = "download"
    /\ self' = i
    /\ locals' = NoLocals
    /\ nFetch' = 0
    /\ nTrain' = 0
    /\ runs' = runs + 1
    /\ last' = [op |-> "load", arg |-> i, mode |-> "", out |-> Pending, prev |-> <<>>]
    /\ UNCHANGED <<fs, PATHS, dictionary, inst, remote, rets, clean>>

\* The running load() call ends in exception e.
Fail(e) ==
    /\ pc' = "idle"
    /\ clean' = FALSE
    /\ locals' = NoLocals
    /\ last' = [op |-> "load", arg |-> self, mode |-> "", out |-> Raised(e), prev |-> <<>>]

Names == DatasetFiles(inst[self].DATASET)

\* self.download_dataset()
Download ==
    /\ pc = "download"
    /\ fs' = download_dataset(fs, inst[self].DIR, Names, Len(Names), remote)
    /\ nFetch' = nFetch + Cardinality(Fetched(fs, inst[self].DIR, Names, Len(Names)))
    /\ pc' = "parse_source"
    /\ UNCHANGED <<PATHS, dictionary, inst, self, locals, last, remote, nTrain, rets,
                   runs, clean>>

\* urlretrieve fails part-way through the transfer of file k: the files before it
\* are in place and the destination of file k holds what was received so far.
DownloadFail ==
    /\ pc = "download"
    /\ clean
    /\ \E k \in 1..Len(Names) :
          /\ NeedsFetch(fs, DownloadPath(inst[self].DIR, Names[k]))
          /\ \E n \in 0..(Len(remote[Names[k]]) - 1) :
                fs' = Put(download_dataset(fs, inst[self].DIR, Names, k - 1, remote),
                          DownloadPath(inst[self].DIR, Names[k]),
                          SubSeq(remote[Names[k]], 1, n))
          /\ nFetch' = nFetch + Cardinality(Fetched(fs, inst[self].DIR, Names, k))
    /\ Fail("URLError")
    /\ UNCHANGED <<PATHS, dictionary, inst, self, remote, nTrain, rets, runs>>

\* A load() that trains the source model before it normalises the target corpus.
NextOfTrainEarly(stage) ==
    CASE stage = "parse_source"   -> "train_source"
      [] stage = "train_source"   -> "parse_target"
      [] stage = "parse_target"   -> "train_target"
      [] stage = "train_target"   -> "vocab_source"
      [] stage = "vocab_source"   -> "vocab_target"
      [] stage = "vocab_target"   -> "segment_source"
      [] stage = "segment_source" -> "encode_source"
      [] stage = "encode_source"  -> "segment_target"
      [] stage = "segment_target" -> "encode_target"
      [] stage = "encode_target"  -> "return"

\* The statement of load() that follows a statement.
NextOf(stage) ==
    CASE stage = "parse_source"   -> "parse_target"
      [] stage = "parse_target"   -> "train_source"
      [] stage = "train_source"   -> "train_target"
      [] stage = "train_target"   -> "vocab_source"
      [] stage = "vocab_source"   -> "vocab_target"
      [] stage = "vocab_target"   -> "segment_source"
      [] stage = "segment_source" -> "encode_source"
      [] stage = "encode_source"  -> "segment_target"
      [] stage = "segment_target" -> "encode_target"
      [] stage = "encode_target"  -> "return"

StageOf(name, mode) == IF mode = "source" THEN name \o "_source" ELSE name \o "_target"

\* source_data / target_data = self.parse_data_and_save(self.PATHS[...])
Parse(mode) ==
    /\ pc = StageOf("parse", mode)
    /\ LET r == parse_data_and_save(fs, PATHS[DataKey(mode)]) IN
       IF r.out.exc = "none"
       THEN /\ fs' = r.files
            /\ locals' = IF mode = "source"
                         THEN [locals EXCEPT !.source_data = r.out.val]
                         ELSE [locals EXCEPT !.target_data = r.out.val]
            /\ pc' = NextOf(pc)
            /\ UNCHANGED <<last, clean>>
       ELSE Fail(r.out.exc) /\ UNCHANGED fs
    /\ UNCHANGED <<PATHS, dictionary, inst, self, remote, nFetch, nTrain, rets, runs>>

\* self.train_bpe(self.PATHS[..._data], self.PATHS[..._bpe_prefix])
Train(mode) ==
    /\ pc = StageOf("train", mode)
    /\ fs' = train_bpe(fs, PATHS[DataKey(mode)], PATHS[PrefixKey(mode)],
                       inst[self].BPE_VOCAB_SIZE)
    /\ nTrain' = IF NeedsTrain(fs, PATHS[PrefixKey(mode)]) THEN nTrain + 1 ELSE nTrain
    /\ pc' = NextOf(pc)
    /\ UNCHANGED <<PATHS, dictionary, inst, self, locals, last, remote, nFetch, rets,
                   runs, clean>>

\* The training is cut short: the model file is written and the vocabulary file is
\* missing or holds only its first lines.
TrainFail(mode) ==
    /\ pc = StageOf("train", mode)
    /\ clean
    /\ NeedsTrain(fs, PATHS[PrefixKey(mode)])
    /\ LET prefix == PATHS[PrefixKey(mode)]
           vocab  == TrainedVocab(fs[PATHS[DataKey(mode)]], inst[self].BPE_VOCAB_SIZE)
           model  == Put(fs, PathAdd(prefix, BPE_MODEL_SUFFIX), VocabFileOf(vocab))
       IN  \/ fs' = model
           \/ \E n \in 0..(Len(vocab) - 1) :
                 fs' = Put(model, PathAdd(prefix, BPE_VOCAB_SUFFIX),
                           VocabFileOf(SubSeq(vocab, 1, n)))
    /\ nTrain' = nTrain + 1
    /\ Fail("RuntimeError")
    /\ UNCHANGED <<PATHS, dictionary, inst, self, remote, nFetch, rets, runs>>

\* self.dictionary[mode][...] = self.load_bpe_vocab(prefix + '.vocab')
Vocab(mode) ==
    /\ pc = StageOf("vocab", mode)
    /\ LET r == load_bpe_vocab(fs, VocabPath(PATHS, mode)) IN
       IF r.exc = "none"
       THEN /\ dictionary' = LoadVocabInto(dictionary, fs, PATHS, mode)
            /\ pc' = NextOf(pc)
            /\ UNCHANGED <<locals, last, clean>>
       ELSE Fail(r.exc) /\ UNCHANGED dictionary
    /\ UNCHANGED <<fs, PATHS, inst, self, remote, nFetch, nTrain, rets, runs>>

LocalData(mode) == IF mode = "source" THEN locals.source_data ELSE locals.target_data

\* self.sentence_piece(data, prefix + '.model', prefix + '.sequences')
Segment(mode) ==
    /\ pc = StageOf("segment", mode)
    /\ LET r == sentence_piece(fs, LocalData(mode),
                               PathAdd(PATHS[PrefixKey(mode)], BPE_MODEL_SUFFIX),
                               PathAdd(PATHS[PrefixKey(mode)], BPE_RESULT_SUFFIX)) IN
       IF r.out.exc = "none"
       THEN /\ fs' = r.files
            /\ locals' = [locals EXCEPT !.pieces = r.out.val]
            /\ pc' = NextOf(pc)
            /\ UNCHANGED <<last, clean>>
       ELSE Fail(r.out.exc) /\ UNCHANGED fs
    /\ UNCHANGED <<PATHS, dictionary, inst, self, remote, nFetch, nTrain, rets, runs>>

\* The loop of sentence_piece is cut short: the result file holds the lines written
\* so far.
SegmentFail(mode) ==
    /\ pc = StageOf("segment", mode)
    /\ clean
    /\ LET model_path  == PathAdd(PATHS[PrefixKey(mode)], BPE_MODEL_SUFFIX)
           result_path == PathAdd(PATHS[PrefixKey(mode)], BPE_RESULT_SUFFIX)
           data == LocalData(mode)
       IN  /\ Exists(fs, model_path)
           /\ ~Exists(fs, result_path)
           /\ \E n \in 0..(Len(data) - 1) :
                 fs' = Put(fs, result_path,
                           WriteLines([j \in 1..n |-> Join(EncodeAsPieces(data[j]), " ")]))
    /\ Fail("KeyboardInterrupt")
    /\ UNCHANGED <<PATHS, dictionary, inst, self, remote, nFetch, nTrain, rets, runs>>

\* source_sequences / target_sequences = self.texts_to_sequences(pieces, mode=...)
Encode(mode) ==
    /\ pc = StageOf("encode", mode)
    /\ LET r == texts_to_sequences(dictionary, locals.pieces, mode) IN
       IF r.exc = "none"
       THEN /\ locals' = IF mode = "source"
                         THEN [locals EXCEPT !.source_sequences = r.val]
                         ELSE [locals EXCEPT !.target_sequences = r.val]
            /\ pc' = NextOf(pc)
            /\ UNCHANGED <<last, clean>>
       ELSE Fail(r.exc)
    /\ UNCHANGED <<fs, PATHS, dictionary, inst, self, remote, nFetch, nTrain, rets, runs>>

\* return source_sequences, target_sequences
Return ==
    /\ pc = "return"
    /\ pc' = "idle"
    /\ rets' = Append(rets, [val |-> <<locals.source_sequences, locals.target_sequences>>,
                             run |-> runs, nFetch |-> nFetch, nTrain |-> nTrain])
    /\ last' = [op |-> "load", arg |-> self, mode |-> "",
                out |-> Returned(<<locals.source_sequences, locals.target_sequences>>),
                prev |-> <<>>]
    /\ locals' = NoLocals
    /\ UNCHANGED <<fs, PATHS, dictionary, inst, self, remote, nFetch, nTrain, runs, clean>>

Next ==
    \/ \E v \in VocabSizes : New(1, DATASET_NAME, Dir1, v)
    \/ \E n \in BadNames : New(2, n, Dir1, 5)
    \/ New(2, DATASET_NAME, "None", 5)
    \/ LoadStart(1)
    \/ Download
    \/ DownloadFail
    \/ \E m \in Modes : Parse(m)
    \/ \E m \in Modes : Train(m)
    \/ \E m \in Modes : TrainFail(m)
    \/ \E m \in Modes : Vocab(m)
    \/ \E m \in Modes : Segment(m)
    \/ \E m \in Modes : SegmentFail(m)
    \/ \E m \in Modes : Encode(m)
    \/ Return

Spec == Init /\ [][Next]_vars

\* The two-instance specification: two DataLoader objects with different data
\* directories are constructed and their load() calls run, in any order, one call
\* at a time.
NextTwo ==
    \/ \E v \in VocabSizes : New(1, DATASET_NAME, Dir1, v)
    \/ \E v \in VocabSizes : New(2, DATASET_NAME, Dir2, v)
    \/ \E i \in Instances : LoadStart(i)
    \/ Download
    \/ \E m \in Modes : Parse(m)
    \/ \E m \in Modes : Train(m)
    \/ \E m \in Modes : Vocab(m)
    \/ \E m \in Modes : Segment(m)
    \/ \E m \in Modes : Encode(m)
    \/ Return

SpecTwo == Init /\ [][NextTwo]_vars

----------------------------------------------------------------------------
(* Properties of the pipeline, checked under Spec. *)

NumFiles == Len(DatasetFiles(DATASET_NAME))

\* C1: when the first two load() calls on the initially empty data directory both
\* complete, the second returns the same (source, target) sequence lists as the
\* first and makes no urlretrieve call and no SentencePieceTrainer.Train call.
C1_SecondRunIdentical ==
    (Len(rets) >= 2 /\ rets[1].run = 1 /\ rets[2].run = 2)
        => /\ rets[2].val = rets[1].val
           /\ rets[2].nFetch = 0
           /\ rets[2].nTrain = 0

\* Two completed runs of a corpus of at least two lines; the first fetched every
\* file and trained both models.
C1_Witness ==
    /\ Len(rets) = 2
    /\ rets[1].run = 1
    /\ rets[2].run = 2
    /\ rets[1].nFetch = NumFiles
    /\ rets[1].nTrain = 2
    /\ Len(rets[2].val[1]) >= 2
    /\ Len(rets[2].val[2]) >= 2

BothExist(files, model_prefix) ==
    /\ PathAdd(model_prefix, BPE_MODEL_SUFFIX) \in DOMAIN files
    /\ PathAdd(model_prefix, BPE_VOCAB_SUFFIX) \in DOMAIN files

\* C2: a train_bpe step calls the trainer if and only if the model file or the
\* vocabulary file is missing; when both exist it does not train and the
\* filesystem is left as it was.
C2_TrainIffMissing ==
    [][\A m \in Modes :
          pc = StageOf("train", m) =>
              /\ BothExist(fs, PATHS[PrefixKey(m)]) => (nTrain' = nTrain /\ fs' = fs)
              /\ ~BothExist(fs, PATHS[PrefixKey(m)]) => nTrain' = nTrain + 1]_vars

\* The source train_bpe step of a run has just found both files and skipped the
\* training.
C2_Witness ==
    /\ pc = "train_target"
    /\ nTrain = 0
    /\ BothExist(fs, PATHS["source_bpe_prefix"])

Absent(files, data_dir) ==
    {f \in Range(DatasetFiles(DATASET_NAME)) : <<data_dir, f>> \notin DOMAIN files}

\* C3: a download step leaves every file that exists as it is, content included,
\* and starts a transfer for absent destinations only: a completed download_dataset
\* has made exactly one transfer per absent file.
C3_DownloadOnlyAbsent ==
    [][pc = "download" =>
          /\ \A p \in DOMAIN fs : p \in DOMAIN fs' /\ fs'[p] = fs[p]
          /\ nFetch' <= nFetch + Cardinality(Absent(fs, inst[self].DIR))
          /\ pc' = "parse_source" =>
                nFetch' = nFetch + Cardinality(Absent(fs, inst[self].DIR))]_vars

\* A download_dataset has completed that found some files in place, one of them
\* cut short by an earlier failed transfer, and fetched the others.
C3_Witness ==
    /\ pc = "parse_source"
    /\ ~clean
    /\ nFetch > 0
    /\ nFetch < NumFiles
    /\ \E f \in Range(DatasetFiles(DATASET_NAME)) : fs[<<Dir1, f>>] # remote[f]

\* C10: a construction with a dataset name outside CONFIG ends in an exception and
\* leaves PATHS and the vocabulary tables as they were before the call.
C10_UnknownDatasetFails ==
    (last.op = "__init__" /\ last.arg[1] \notin DOMAIN CONFIG)
        => /\ last.out.exc # "none"
           /\ PATHS = last.prev.PATHS
           /\ dictionary = last.prev.dictionary

\* An unknown name was refused after an instance had been constructed and had
\* loaded its vocabularies.
C10_Witness ==
    /\ last.op = "__init__"
    /\ last.arg[1] = "other"
    /\ last.out.exc = "KeyError"
    /\ PATHS # EmptyDict
    /\ dictionary["source"].loaded

\* The statements of load() in program order.
Stages ==
    << "download", "parse_source", "parse_target", "train_source", "train_target",
       "vocab_source", "vocab_target", "segment_source", "encode_source",
       "segment_target", "encode_target", "return" >>

Rank(stage) == CHOOSE i \in 1..Len(Stages) : Stages[i] = stage

AllFetched == \A f \in Range(Names) : <<inst[self].DIR, f>> \in DOMAIN fs

\* C12: a load() call starts with the fetch and moves from each stage to the next
\* of fetch, normalise source, normalise target, train-or-load source,
\* train-or-load target, load source vocabulary, load target vocabulary, segment
\* and encode source, segment and encode target.  A corpus is normalised only when
\* every configured file is in place, a model is trained only when both corpora
\* are normalised, a vocabulary is loaded only after both train-or-load steps, and
\* a corpus is segmented or encoded only after both vocabularies are loaded.
C12_StageOrder ==
    [][/\ (pc = "idle" /\ pc' # "idle") => pc' = "download"
       /\ (pc # "idle" /\ pc' # "idle") => Rank(pc') = Rank(pc) + 1
       /\ (pc' # "idle" /\ <<locals.source_data, locals.target_data>>'
                               # <<locals.source_data, locals.target_data>>)
             => /\ AllFetched
                /\ Rank(pc) > Rank("download")
       /\ nTrain' > nTrain
             => /\ locals.source_data # <<>>
                /\ locals.target_data # <<>>
                /\ Rank(pc) > Rank("parse_target")
       /\ dictionary' # dictionary => Rank(pc) > Rank("train_target")
       /\ (pc' # "idle" /\ pc # "idle"
             /\ <<locals.pieces, locals.source_sequences, locals.target_sequences>>'
                   # <<locals.pieces, locals.source_sequences, locals.target_sequences>>)
             => /\ Rank(pc) > Rank("vocab_target")
                /\ dictionary["source"].loaded
                /\ dictionary["target"].loaded]_vars

\* A load() call went through every stage: it fetched every file, trained both
\* models and is about to return the sequences of a corpus of two lines.
C12_Witness ==
    /\ pc = "return"
    /\ nFetch = NumFiles
    /\ nTrain = 2
    /\ Len(locals.source_sequences) = 2
    /\ Len(locals.target_sequences) = 2

\* C13: no step of the program removes a file: every path that exists before a
\* step exists after it, in completed and in aborted load() calls alike.
C13_NeverDeletes == [][DOMAIN fs \subseteq DOMAIN fs']_vars

\* A load() call was aborted, a later one completed, and every file of the
\* dataset and the three artifacts of both sides are in place.
C13_Witness ==
    /\ ~clean
    /\ Len(rets) >= 1
    /\ pc = "idle"
    /\ Cardinality(DOMAIN fs) = NumFiles + 6

\* What load() returns when it runs once, uninterrupted, on an empty data
\* directory: its stages applied one after the other.
UninterruptedLoad(server, data_dir, vocab_size) ==
    LET paths  == InitPaths(EmptyDict, DATASET_NAME, data_dir)
        names  == DatasetFiles(DATASET_NAME)
        model(m)  == PathAdd(paths[PrefixKey(m)], BPE_MODEL_SUFFIX)
        result(m) == PathAdd(paths[PrefixKey(m)], BPE_RESULT_SUFFIX)
        fetched == download_dataset(EmptyDict, data_dir, names, Len(names), server)
        source  == parse_data_and_save(fetched, paths["source_data"])
        target  == parse_data_and_save(source.files, paths["target_data"])
        trained == train_bpe(train_bpe(target.files, paths["source_data"],
                                       paths["source_bpe_prefix"], vocab_size),
                             paths["target_data"], paths["target_bpe_prefix"], vocab_size)
        dict == LoadVocabInto(LoadVocabInto(InitDictionary, trained, paths, "source"),
                              trained, paths, "target")
        source_pieces == sentence_piece(trained, source.out.val,
                                        model("source"), result("source"))
        target_pieces == sentence_piece(source_pieces.files, target.out.val,
                                        model("target"), result("target"))
    IN  << texts_to_sequences(dict, source_pieces.out.val, "source").val,
           texts_to_sequences(dict, target_pieces.out.val, "target").val >>

\* The lines of a corpus file of the server, blank text around them aside.
CorpusLines(content) == SplitOn(Strip(content), "\n")

\* C17: every load() call that completes, also one that follows an aborted call on
\* the same data directory, returns what a single uninterrupted call on an empty
\* directory returns, with one sequence per corpus line.
C17_ResumeSafe ==
    \A k \in 1..Len(rets) :
        /\ rets[k].val = UninterruptedLoad(remote, inst[1].DIR, inst[1].BPE_VOCAB_SIZE)
        /\ Len(rets[k].val[1]) = Len(CorpusLines(remote[CONFIG[DATASET_NAME].train_files[1]]))
        /\ Len(rets[k].val[2]) = Len(CorpusLines(remote[CONFIG[DATASET_NAME].train_files[2]]))

\* The paths the file stages of the running load() call work on.
StagePaths ==
    UNION { { PATHS[DataKey(m)],
              PathAdd(PATHS[PrefixKey(m)], BPE_MODEL_SUFFIX),
              PathAdd(PATHS[PrefixKey(m)], BPE_VOCAB_SUFFIX),
              PathAdd(PATHS[PrefixKey(m)], BPE_RESULT_SUFFIX) } : m \in Modes }

\* C18: while the load() call of an instance is between its fetch and its return,
\* every path its stages read and write lies under the data directory of that
\* instance.
C18_OwnDirectoryOnly ==
    (pc \notin {"idle", "download", "return"})
        => \A p \in StagePaths : p[1] = inst[self].DIR

----------------------------------------------------------------------------
(* Properties of the vocabulary and codec methods, checked under SpecCodec. *)

\* The number of whitespace-separated pieces of a text: the positions where a run
\* of non-whitespace characters starts.
NumPieces(text) ==
    Cardinality({i \in 1..Len(text) :
                    text[i] \notin Whitespace /\ (i = 1 \/ text[i - 1] \in Whitespace)})

\* The ids of "<pad>", "<unk>", "<s>", "</s>" are 0, 1, 2, 3.
ReservedIds(token2idx) ==
    /\ {<<PAD>>, <<UNK>>, <<BOS>>, <<EOS>>} \subseteq DOMAIN token2idx
    /\ token2idx[<<PAD>>] = 0
    /\ token2idx[<<UNK>>] = 1
    /\ token2idx[<<BOS>>] = 2
    /\ token2idx[<<EOS>>] = 3

EncodedWith(mode) ==
    /\ last.op = "texts_to_sequences"
    /\ last.mode = mode
    /\ dictionary[mode].loaded

\* C4: with a vocabulary whose ids 0..3 are the reserved pieces, texts_to_sequences
\* returns one sequence per piece-line, each starting with id 2, ending with id 3
\* and as long as the line has pieces plus 2; an empty line gives <<2, 3>>.
C4_Bracketed ==
    \A m \in Modes :
        (EncodedWith(m) /\ ReservedIds(dictionary[m].token2idx))
            => /\ last.out.exc = "none"
               /\ Len(last.out.val) = Len(last.arg)
               /\ \A n \in 1..Len(last.arg) :
                     /\ Len(last.out.val[n]) = NumPieces(last.arg[n]) + 2
                     /\ last.out.val[n][1] = 2
                     /\ last.out.val[n][Len(last.out.val[n])] = 3

\* A two-piece line and an empty line were encoded.
C4_Witness ==
    /\ EncodedWith("source")
    /\ ReservedIds(dictionary["source"].token2idx)
    /\ last.arg = << <<"a", " ", "b">>, <<>> >>
    /\ Len(last.out.val[1]) = 4
    /\ last.out.val[2] = <<2, 3>>

Covers(mode, texts, withUnk) ==
    /\ mode \in Modes
    /\ dictionary[mode].loaded
    /\ {<<BOS>>, <<EOS>>} \subseteq DOMAIN dictionary[mode].token2idx
    /\ withUnk => <<UNK>> \in DOMAIN dictionary[mode].token2idx
    /\ \A n \in 1..Len(texts) :
          Range(SplitWs(texts[n])) \subseteq DOMAIN dictionary[mode].token2idx

RoundTrip(withUnk) ==
    /\ (last.op = "texts_to_sequences" /\ Covers(last.mode, last.arg, withUnk))
          => last.out.exc = "none"
    /\ (/\ last.op = "sequences_to_texts"
        /\ last.mode = last.prev.mode
        /\ Covers(last.mode, last.prev.arg, withUnk))
          => /\ last.out.exc = "none"
             /\ Len(last.out.val) = Len(last.prev.arg)
             /\ \A n \in 1..Len(last.prev.arg) :
                   last.out.val[n] =
                       <<(<<BOS>>)>> \o SplitWs(last.prev.arg[n]) \o <<(<<EOS>>)>>

\* C6 as claimed: whenever the vocabulary lists the boundary markers and every
\* piece of the line, encoding succeeds and decoding the result on the same side
\* gives "<s>", the pieces in order, "</s>".
C6_RoundTripAsClaimed == RoundTrip(FALSE)

\* C6 as amended: the same, for vocabularies that also list "<unk>".
C6_RoundTrip == RoundTrip(TRUE)

\* A two-piece line was encoded and decoded again on the source side.
C6_Witness ==
    /\ last.op = "sequences_to_texts"
    /\ last.mode = "source"
    /\ last.prev.mode = "source"
    /\ Covers("source", last.prev.arg, TRUE)
    /\ last.prev.arg = << <<"a", " ", "b">> >>
    /\ last.out.val = << << <<BOS>>, <<"a">>, <<"b">>, <<EOS>> >> >>

\* The token of line i of a vocabulary file: its first whitespace-delimited field.
TokenAt(content, i) == SplitWs(SplitLines(content)[i])[1]

DistinctTokens(content) ==
    \A i, j \in 1..Len(SplitLines(content)) :
        TokenAt(content, i) = TokenAt(content, j) => i = j

Bijection(content, r) ==
    LET n == Len(SplitLines(content)) IN
    /\ DOMAIN r.idx2token = 0..(n - 1)
    /\ DOMAIN r.token2idx = {TokenAt(content, i) : i \in 1..n}
    /\ \A i \in 1..n : r.token2idx[TokenAt(content, i)] = i - 1
    /\ \A i \in 1..n : r.idx2token[i - 1] = TokenAt(content, i)
    /\ \A t \in DOMAIN r.token2idx : r.idx2token[r.token2idx[t]] = t
    /\ \A i \in DOMAIN r.idx2token : r.token2idx[r.idx2token[i]] = i

\* C7 as claimed: for every vocabulary listing load_bpe_vocab returns, each token
\* has the 0-based position of its line and the two tables are inverse bijections.
C7_BijectionAsClaimed ==
    (last.op = "load_bpe_vocab" /\ last.out.exc = "none")
        => Bijection(fs[last.arg], last.out.val)

\* C7 as amended: the same, for listings whose tokens are pairwise distinct.
C7_Bijection ==
    (last.op = "load_bpe_vocab" /\ last.out.exc = "none"
        /\ DistinctTokens(fs[last.arg]))
        => Bijection(fs[last.arg], last.out.val)

\* A listing of the reserved pieces and two more tokens was loaded.
C7_Witness ==
    /\ last.op = "load_bpe_vocab"
    /\ last.out.exc = "none"
    /\ DistinctTokens(fs[last.arg])
    /\ Len(SplitLines(fs[last.arg])) = 6
    /\ last.out.val.token2idx[<<BOS>>] = 2
    /\ last.out.val.idx2token[2] = <<BOS>>

\* sequences_to_texts was called on side mode with its vocabulary loaded.
DecodedWith(mode) ==
    /\ last.op = "sequences_to_texts"
    /\ last.mode = mode
    /\ dictionary[mode].loaded

\* The call returned one token list per id sequence, of the same length, with the
\* token of each id the vocabulary holds and the token at id 1 for each other id.
DecodesAll(mode) ==
    /\ last.out.exc = "none"
    /\ Len(last.out.val) = Len(last.arg)
    /\ \A n \in 1..Len(last.arg) :
          /\ Len(last.out.val[n]) = Len(last.arg[n])
          /\ \A k \in 1..Len(last.arg[n]) :
                last.out.val[n][k] =
                    IF last.arg[n][k] \in DOMAIN dictionary[mode].idx2token
                    THEN dictionary[mode].idx2token[last.arg[n][k]]
                    ELSE dictionary[mode].idx2token[1]

\* C16 as claimed: with any loaded vocabulary, sequences_to_texts returns without
\* error, for every id sequence, a token list of the same length with present ids
\* replaced by their tokens and absent ids by the token at id 1.
C16_DecodeTotalAsClaimed ==
    \A m \in Modes : DecodedWith(m) => DecodesAll(m)

\* C16 as amended: the same, for vocabularies that hold a token at id 1.
C16_DecodeTotal ==
    \A m \in Modes :
        (DecodedWith(m) /\ 1 \in DOMAIN dictionary[m].idx2token) => DecodesAll(m)

\* A sequence of a present id and an absent id was decoded.
C16_Witness ==
    /\ DecodedWith("source")
    /\ ReservedIds(dictionary["source"].token2idx)
    /\ last.arg = << <<0, 9>>, <<>> >>
    /\ last.out.val = << << <<PAD>>, <<UNK>> >>, <<>> >>

\* C8: a codec call with a mode other than 'source' and 'target' raises.
C8_InvalidModeRaises ==
    (last.op \in {"texts_to_sequences", "sequences_to_texts"} /\ last.mode \notin Modes)
        => last.out.exc # "none"

\* An empty vocabulary file, or one with a line that has no field.
Malformed(content) ==
    \/ content = <<>>
    \/ \E i \in 1..Len(SplitLines(content)) : SplitWs(SplitLines(content)[i]) = <<>>

\* C9: load_bpe_vocab raises on an empty or malformed vocabulary file.
C9_MalformedVocabFails ==
    (last.op = "load_bpe_vocab" /\ last.arg \in DOMAIN fs /\ Malformed(fs[last.arg]))
        => last.out.exc # "none"

----------------------------------------------------------------------------
(* Properties of parse_data_and_save and sentence_piece, checked under     *)
(* SpecFiles.                                                              *)

\* C11: a parse_data_and_save call that follows another one on the same file
\* returns the same list of lines as the previous call and leaves the content of
\* the file, and every other file, as the previous call left it.
C11_ParseIdempotent ==
    (/\ last.op = "parse_data_and_save"
     /\ last.prev.op = "parse_data_and_save"
     /\ last.prev.out.exc = "none")
        => /\ last.out = last.prev.out
           /\ fs = last.prev.fs

\* A file of two lines was normalised a second time.
C11_Witness ==
    /\ last.op = "parse_data_and_save"
    /\ last.prev.op = "parse_data_and_save"
    /\ last.prev.calls = 2
    /\ last.out.exc = "none"
    /\ Len(last.out.val) = 2
    /\ fs[SourceData] = <<"a", "\n", "a">>

\* C14: parse_data_and_save returns the content of the file, with only its
\* trailing whitespace removed, split on newlines, and writes these lines back
\* joined by single newlines.
C14_OnlyTrailingStripped ==
    (last.op = "parse_data_and_save" /\ last.out.exc = "none")
        => /\ last.out.val = SplitOn(RStrip(last.prev.fs[last.arg]), "\n")
           /\ fs[last.arg] = Join(last.out.val, "\n")

\* C15: on a cache hit sentence_piece returns the lines of the result file, one
\* element per line, and writes nothing; on a miss it returns one piece-string per
\* input line and the result file afterwards holds these strings one per line.
C15_CacheVerbatim ==
    (last.op = "sentence_piece" /\ last.out.exc = "none")
        => IF SourceResult \in DOMAIN last.prev.fs
           THEN /\ last.out.val = SplitLines(last.prev.fs[SourceResult])
                /\ fs = last.prev.fs
           ELSE /\ Len(last.out.val) = Len(last.arg)
                /\ \A n \in 1..Len(last.arg) :
                      last.out.val[n] = Join(EncodeAsPieces(last.arg[n]), " ")
                /\ SplitLines(fs[SourceResult]) = last.out.val

====
